---- MODULE Spec2Model ----
(***************************************************************************)
(* QuantumLink SaaS API (src/app.py): the four protected Flask routes,     *)
(* their two decorators (require_auth, handle_api_errors) and the three    *)
(* mock collaborators (MockSistemaQuantumBiMoType, MockDatabase,           *)
(* MockAuthService).                                                       *)
(*                                                                         *)
(* Representation.  A Python str whose characters matter (message) is a    *)
(* sequence of runs [c, n]: n >= 1 copies of the character c, adjacent     *)
(* runs having different characters.  A str of which only the prefixes     *)
(* matter (tokens, ids, keys) is a sequence of lexemes: "Bearer valid_u1"  *)
(* is <<"Bearer ", "valid_", "u1">>.  A JSON / Python value is a record    *)
(* [t, v] with t the type tag and v a sequence.  None (and an absent dict  *)
(* key read with .get) is NoneV.                                           *)
(***************************************************************************)
EXTENDS Integers, Sequences, FiniteSets, TLC

\* ------------------------------------------------------------------ bounds
\* number of requests served in one run (also the range of the clock)
MaxClock == 3
\* number of distinct values of str(hash(message))[:8] the process can produce
NumHashVals == 2

\* ------------------------------------------------------- program constants
\* app.py:189  len(message) > 1000
MaxMessageLen == 1000

\* ------------------------------------------------------------ Python values
NoneV == [t |-> "none", v |-> <<>>]
Str(s) == [t |-> "str", v |-> s]
Num(n) == [t |-> "num", v |-> <<n>>]
List(l) == [t |-> "list", v |-> l]

\* Python truthiness ("if not x")
Truthy(x) ==
    CASE x.t = "none" -> FALSE
      [] x.t = "num"  -> x.v # <<"0">>
      [] OTHER        -> Len(x.v) > 0

\* str.startswith(prefix) on a lexeme sequence
startswith(s, prefix) == Len(s) > 0 /\ s[1] = prefix

\* str.replace(old, '') on a lexeme sequence: every occurrence is removed
replace(s, old) == SelectSeq(s, LAMBDA x : x # old)

Whitespace == {" "}

Run(c, n) == [c |-> c, n |-> n]

\* len() of a str given as runs
RECURSIVE len(_)
len(s) == IF s = <<>> THEN 0 ELSE Head(s).n + len(Tail(s))

\* str.lstrip(): drop the leading whitespace
RECURSIVE lstrip(_)
lstrip(s) ==
    IF s # <<>> /\ Head(s).c \in Whitespace THEN lstrip(Tail(s)) ELSE s

\* str.rstrip(): drop the trailing whitespace
RECURSIVE rstrip(_)
rstrip(s) ==
    IF s # <<>> /\ s[Len(s)].c \in Whitespace
    THEN rstrip(SubSeq(s, 1, Len(s) - 1)) ELSE s

\* str.strip()
strip(s) == rstrip(lstrip(s))

\* -------------------------------------------------------- MockAuthService
\* get_user_from_token: the user id, as a sequence of at most one element
\* (<<>> is Python's None)
get_user_from_token(token) ==
    IF Len(token) > 0 /\ startswith(token, "valid_")
    THEN << replace(token, "valid_") >>
    ELSE <<>>

\* ------------------------------------------------------------ HTTP request
\* body.kind:
\*   "nojson"    the request's mimetype is not JSON (request.is_json False)
\*   "malformed" JSON mimetype, body empty or unparseable
\*   "null", "emptyarray", "array", "object"  the parsed JSON value
\* For an object, the fields are what dict.get returns for each key;
\* options.t = "absent" is a missing key (get's default applies).
is_json(body) == body.kind # "nojson"

\* require_auth: outcome of the decorator before it calls the view.
\*   raise = "BadRequest"     request.json could not parse the body
\*   raise = "AttributeError" .get on a non-dict, .startswith on a non-str
RequireAuth(req) ==
    LET hdr == req.header
        fromBody == ~Truthy(hdr) /\ is_json(req.body)
    IN  IF fromBody /\ req.body.kind = "malformed"
        THEN [ok |-> FALSE, status |-> 400, code |-> "BAD_REQUEST", user |-> <<>>]
        ELSE IF fromBody /\ req.body.kind # "object"
        THEN [ok |-> FALSE, status |-> 500, code |-> "INTERNAL_ERROR", user |-> <<>>]
        ELSE
        LET auth_token == IF fromBody THEN req.body.auth_token ELSE hdr
        IN  IF ~Truthy(auth_token)
            THEN [ok |-> FALSE, status |-> 401, code |-> "UNAUTHORIZED", user |-> <<>>]
            ELSE IF auth_token.t # "str"
            THEN [ok |-> FALSE, status |-> 500, code |-> "INTERNAL_ERROR", user |-> <<>>]
            ELSE
            LET tok == IF startswith(auth_token.v, "Bearer ")
                       THEN Tail(auth_token.v) ELSE auth_token.v
                user == get_user_from_token(tok)
            IN  IF user = <<>>
                THEN [ok |-> FALSE, status |-> 401, code |-> "INVALID_TOKEN", user |-> <<>>]
                ELSE [ok |-> TRUE, status |-> 0, code |-> "", user |-> user]

\* request.get_json() inside a view.  With a non-JSON mimetype Flask before
\* 2.1 returns None (legacy) and Flask from 2.1 on raises an HTTPException
\* (BadRequest, from 2.3 on UnsupportedMediaType); the repository pins no
\* version, so a view may see either.  An unparseable body raises
\* BadRequest in every version.
get_json(body, legacy) ==
    CASE body.kind = "nojson"    -> IF legacy THEN [raise |-> "", kind |-> "null"]
                                    ELSE [raise |-> "HTTPException", kind |-> ""]
      [] body.kind = "malformed" -> [raise |-> "BadRequest", kind |-> ""]
      [] OTHER                   -> [raise |-> "", kind |-> body.kind]

\* an object with no key at all: Python's {} (falsy)
IsEmptyObject(body) ==
    /\ body.auth_token = NoneV /\ body.message = NoneV
    /\ body.options.t = "absent"
    /\ body.package_id = NoneV /\ body.measurements = NoneV

\* "if not data" on the parsed body
NotData(kind, body) ==
    \/ kind \in {"null", "emptyarray"}
    \/ kind = "object" /\ IsEmptyObject(body)

\* ----------------------------------------------- MockSistemaQuantumBiMoType
\* str(hash(message))[:8] for the i-th hash value of the process
HashStr(i) == <<"10000001", "10000002", "10000003", "10000004", "10000005">>[i]

\* encode_quantum_message: the package draft
encode_quantum_message(message, hash, clock) ==
    [ id_mensaje   |-> <<"BiMO-", HashStr(hash[message])>>,
      timestamp    |-> clock,
      quantum_data |-> <<Run("encoded_", 1)>> \o message,
      qubits_count |-> len(message) ]

\* decode_quantum_transmission: 'metricas_cuanticas' of the fixed result
\* (fidelidad 0.95, error_rate 0.05, coherencia 0.92, in hundredths)
decode_quantum_transmission ==
    [fidelidad |-> 95, error_rate |-> 5, coherencia |-> 92]

\* ------------------------------------------------------------- MockDatabase
\* self.storage is a dict: a sequence of [key, value] in insertion order;
\* assigning to an existing key keeps its position.
save_transmission_history(store, user_id, paquete) ==
    LET key == user_id \o <<"_">> \o paquete.id_mensaje
        at == {i \in 1..Len(store) : store[i].key = key}
    IN  IF at = {}
        THEN Append(store, [key |-> key, value |-> paquete])
        ELSE [i \in 1..Len(store) |->
                 IF i \in at THEN [key |-> key, value |-> paquete] ELSE store[i]]

\* get_package_by_id: the first value in iteration order whose id_mensaje
\* equals package_id, as a sequence of at most one element (<<>> is None)
get_package_by_id(store, package_id) ==
    LET hits == {i \in 1..Len(store) : Str(store[i].value.id_mensaje) = package_id}
    IN  IF hits = {} THEN <<>>
        ELSE << store[CHOOSE i \in hits : \A j \in hits : i <= j].value >>

update_metrics_dropped(m, package_id, new) == m

\* update_metrics: self.metrics[package_id] = metrics
update_metrics(m, package_id, new) ==
    [k \in DOMAIN m \cup {package_id} |-> IF k = package_id THEN new ELSE m[k]]


\* ------------------------------------------------------------------- state
VARIABLES
    storage,     \* db.storage
    metrics,     \* db.metrics
    hashOf,      \* str(hash(s))[:8] of this process, as an index of HashStr
    now,         \* datetime.utcnow(), in ticks; one tick per request
    request,     \* the request being answered
    response,    \* its response
    issued,      \* history: <<user id, package_id>> of every 201 of encode
    decodedOk    \* history: package_id of every 200 of decode

vars == <<storage, metrics, hashOf, now, request, response, issued, decodedOk>>

\* ------------------------------------------------------------------ inputs
Options(t, encoding_type, priority) ==
    [t |-> t, encoding_type |-> encoding_type, priority |-> priority]
NoOptions == Options("absent", "absent", "absent")

Body(kind, auth_token, message, options, package_id, measurements) ==
    [kind |-> kind, auth_token |-> auth_token, message |-> message,
     options |-> options, package_id |-> package_id, measurements |-> measurements]
NonObject(kind) == Body(kind, NoneV, NoneV, NoOptions, NoneV, NoneV)
NoBody == NonObject("nojson")

Request(endpoint, header, body, path_id) ==
    [endpoint |-> endpoint, header |-> header, body |-> body, path_id |-> path_id]

TokU1 == <<"valid_", "u1">>
TokU2 == <<"valid_", "u2">>

\* <<Authorization header, auth_token of the body>> that authenticate
GoodCreds ==
    { <<Str(TokU1), NoneV>>,
      <<Str(<<"Bearer ">> \o TokU2), NoneV>>,
      <<NoneV, Str(TokU1)>> }

\* ... and that do not
BadCreds ==
    { <<NoneV, NoneV>>,
      <<Str(<<>>), NoneV>>,
      <<Str(<<"bogus">>), NoneV>>,
      <<Str(<<"Bearer ">>), NoneV>>,
      <<NoneV, Str(<<"bogus">>)>>,
      <<NoneV, Str(<<>>)>>,
      <<NoneV, Num("123")>>,
      <<NoneV, Num("0")>> }

MessageStrings ==
    { <<>>,
      <<Run(" ", 2)>>,
      <<Run("a", 1)>>,
      <<Run(" ", 1), Run("a", 1), Run(" ", 1)>>,
      <<Run("a", 1), Run(" ", MaxMessageLen)>>,
      <<Run("a", MaxMessageLen)>>,
      <<Run("a", MaxMessageLen + 1)>> }

MessageValues == {Str(m) : m \in MessageStrings} \cup {NoneV, Num("7")}

OptionValues ==
    { NoOptions,
      Options("object", "absent", "high"),
      Options("null", "absent", "absent") }

\* the strings encode_quantum_message is called with, hence hash() is
\* taken of: the stripped form of every message that passes validation
Hashable ==
    { strip(m) : m \in {x \in MessageStrings :
                           strip(x) # <<>> /\ len(x) <= MaxMessageLen} }

PackageIds == { <<"BiMO-", HashStr(i)>> : i \in 1..NumHashVals }

PackageIdValues == {Str(p) : p \in PackageIds} \cup {Str(<<"BiMO-", "unknown">>), NoneV, Num("5")}

MeasurementValues == {NoneV, List(<<>>), List(<<"m1">>), Str(<<"m1">>)}

NonObjectKinds == {"nojson", "malformed", "null", "emptyarray", "array"}

HdrU1 == <<Str(TokU1), NoneV>>

\* the bad credentials tried on every endpoint (all of them on encode)
BadCredsShort ==
    { <<NoneV, NoneV>>, <<Str(<<"bogus">>), NoneV>>, <<NoneV, Num("123")>> }

EncodeRequests ==
    { Request("encode", HdrU1[1], Body("object", NoneV, m, NoOptions, NoneV, NoneV), <<>>) :
         m \in MessageValues }
    \cup
    { Request("encode", c[1], Body("object", c[2], Str(m), NoOptions, NoneV, NoneV), <<>>) :
         c \in GoodCreds, m \in Hashable }
    \cup
    { Request("encode", HdrU1[1], Body("object", NoneV, Str(m), o, NoneV, NoneV), <<>>) :
         m \in {<<Run("a", 1)>>, <<Run(" ", 2)>>}, o \in OptionValues }
    \cup
    { Request("encode", c[1], Body("object", c[2], Str(<<Run("a", 1)>>), NoOptions, NoneV, NoneV), <<>>) :
         c \in BadCreds }
    \cup
    { Request("encode", Str(TokU1), NonObject(k), <<>>) : k \in NonObjectKinds }
    \cup
    { Request("encode", NoneV, NonObject(k), <<>>) : k \in {"nojson", "malformed", "array"} }

DecodeRequests ==
    { Request("decode", c[1], Body("object", c[2], NoneV, NoOptions, Str(p), List(<<"m1">>)), <<>>) :
         c \in GoodCreds, p \in PackageIds }
    \cup
    { Request("decode", HdrU1[1], Body("object", NoneV, NoneV, NoOptions, p, List(<<"m1">>)), <<>>) :
         p \in PackageIdValues }
    \cup
    { Request("decode", HdrU1[1], Body("object", NoneV, NoneV, NoOptions,
                                       Str(<<"BiMO-", HashStr(1)>>), ms), <<>>) :
         ms \in MeasurementValues }
    \cup
    { Request("decode", c[1], Body("object", c[2], NoneV, NoOptions,
                                   Str(<<"BiMO-", HashStr(1)>>), List(<<"m1">>)), <<>>) :
         c \in BadCredsShort }
    \cup
    { Request("decode", Str(TokU1), NonObject(k), <<>>) : k \in {"nojson", "null", "array"} }
    \cup
    { Request("decode", NoneV, NonObject("array"), <<>>) }

\* GET requests: a body matters only as a carrier of auth_token
GetBody(c) ==
    IF c[2] = NoneV THEN NoBody
    ELSE Body("object", c[2], NoneV, NoOptions, NoneV, NoneV)

ListRequests ==
    { Request("packages", c[1], GetBody(c), <<>>) : c \in GoodCreds \cup BadCredsShort }
    \cup
    { Request("packages", NoneV, NonObject(k), <<>>) : k \in {"malformed", "array"} }

PathIds == PackageIds \cup { <<"BiMO-", "unknown">> }

DetailRequests ==
    { Request("package", c[1], GetBody(c), p) : c \in GoodCreds, p \in PackageIds }
    \cup
    { Request("package", HdrU1[1], NoBody, p) : p \in PathIds }
    \cup
    { Request("package", c[1], GetBody(c), <<"BiMO-", HashStr(1)>>) : c \in BadCredsShort }
    \cup
    { Request("package", NoneV, NonObject("array"), <<"BiMO-", HashStr(1)>>) }

\* ------------------------------------------------------------------- views
MessageTooLongAfterStrip(message) == len(strip(message)) > MaxMessageLen

\* app.py:189
MessageTooLong(message) == len(message) > MaxMessageLen

OwnedByAnyone(paquete, current_user) == TRUE

\* app.py:266 and app.py:340 (negated): the package belongs to the caller
OwnedBy(paquete, current_user) == paquete.user_id = current_user

ListedForAnyone(paquete, user_id) == TRUE

\* app.py:301: the filter of the package list
ListedFor(paquete, user_id) == paquete.user_id = user_id

\* the checks every POST view starts with (app.py:180-183, 240-243) and the
\* first .get on the parsed body; "" when the view goes on
ParseBody(body, isLegacy) ==
    LET j == get_json(body, isLegacy)
    IN  IF j.raise # "" THEN "InternalError"
        ELSE IF NotData(j.kind, body) THEN "ValidationError"
        ELSE IF j.kind # "object" THEN "InternalError"
        ELSE ""

\* api_encode_message under handle_api_errors: status, code and, on 201,
\* the package handed to save_transmission_history
api_encode_message(req, current_user, isLegacy, hash, clock) ==
    LET data == req.body
        parsed == ParseBody(data, isLegacy)
        message == data.message
        options == data.options
        encoding_type == IF options.encoding_type = "absent" THEN "BiMO"
                         ELSE options.encoding_type
        priority == IF options.priority = "absent" THEN "medium"
                    ELSE options.priority
        draft == encode_quantum_message(strip(message.v), hash, clock)
        paquete == [ id_mensaje    |-> draft.id_mensaje,
                     timestamp     |-> draft.timestamp,
                     quantum_data  |-> draft.quantum_data,
                     qubits_count  |-> draft.qubits_count,
                     user_id       |-> current_user,
                     encoding_type |-> encoding_type,
                     priority      |-> priority,
                     created_at    |-> clock ]
    IN  IF parsed = "InternalError"
        THEN [status |-> 500, code |-> "INTERNAL_ERROR", paquete |-> <<>>]
        ELSE IF parsed = "ValidationError"
        THEN [status |-> 400, code |-> "VALIDATION_ERROR", paquete |-> <<>>]
        ELSE IF message.t # "str" \/ strip(message.v) = <<>>
        THEN [status |-> 400, code |-> "VALIDATION_ERROR", paquete |-> <<>>]
        ELSE IF MessageTooLong(message.v)
        THEN [status |-> 400, code |-> "VALIDATION_ERROR", paquete |-> <<>>]
        ELSE IF options.t = "null"
        THEN [status |-> 500, code |-> "INTERNAL_ERROR", paquete |-> <<>>]
        ELSE [status |-> 201, code |-> "", paquete |-> <<paquete>>]

\* api_decode_message under handle_api_errors: status, code, whether the
\* Store was read, and whether update_metrics was called
api_decode_message(req, current_user, isLegacy, store) ==
    LET data == req.body
        parsed == ParseBody(data, isLegacy)
        package_id == data.package_id
        measurements == data.measurements
        paquete_original == get_package_by_id(store, package_id)
    IN  IF parsed = "InternalError"
        THEN [status |-> 500, code |-> "INTERNAL_ERROR", read |-> FALSE, update |-> FALSE]
        ELSE IF parsed = "ValidationError"
        THEN [status |-> 400, code |-> "VALIDATION_ERROR", read |-> FALSE, update |-> FALSE]
        ELSE IF ~Truthy(package_id)
        THEN [status |-> 400, code |-> "VALIDATION_ERROR", read |-> FALSE, update |-> FALSE]
        ELSE IF ~Truthy(measurements) \/ measurements.t # "list"
        THEN [status |-> 400, code |-> "VALIDATION_ERROR", read |-> FALSE, update |-> FALSE]
        ELSE IF paquete_original = <<>>
        THEN [status |-> 404, code |-> "PACKAGE_NOT_FOUND", read |-> TRUE, update |-> FALSE]
        ELSE IF ~OwnedBy(paquete_original[1], current_user)
        THEN [status |-> 403, code |-> "FORBIDDEN", read |-> TRUE, update |-> FALSE]
        ELSE [status |-> 200, code |-> "", read |-> TRUE, update |-> TRUE]

\* get_user_packages: the list of summaries, in iteration order of db.storage
PackageSummary(paquete, m) ==
    [ package_id    |-> paquete.id_mensaje,
      timestamp     |-> paquete.timestamp,
      encoding_type |-> paquete.encoding_type,
      qubits_count  |-> paquete.qubits_count,
      status        |-> IF Str(paquete.id_mensaje) \in DOMAIN m THEN "decoded" ELSE "encoded",
      metrics       |-> IF Str(paquete.id_mensaje) \in DOMAIN m
                        THEN << m[Str(paquete.id_mensaje)] >> ELSE <<>> ]

RECURSIVE get_user_packages(_, _, _)
get_user_packages(store, m, user_id) ==
    IF store = <<>> THEN <<>>
    ELSE LET paquete == Head(store).value
             rest == get_user_packages(Tail(store), m, user_id)
         IN  IF ListedFor(paquete, user_id)
             THEN <<PackageSummary(paquete, m)>> \o rest
             ELSE rest

\* get_package_details: status, code and, on 200, the package and its metrics
get_package_details(package_id, current_user, store, m) ==
    LET paquete == get_package_by_id(store, Str(package_id))
    IN  IF paquete = <<>>
        THEN [status |-> 404, code |-> "PACKAGE_NOT_FOUND", package |-> <<>>, metrics |-> <<>>]
        ELSE IF ~OwnedBy(paquete[1], current_user)
        THEN [status |-> 403, code |-> "FORBIDDEN", package |-> <<>>, metrics |-> <<>>]
        ELSE [status |-> 200, code |-> "", package |-> paquete,
              metrics |-> IF Str(package_id) \in DOMAIN m
                          THEN << m[Str(package_id)] >> ELSE <<>>]

\* --------------------------------------------------------------- responses
Response(status, code, current_user, package_id, packages, package, mets, read, write) ==
    [ status |-> status, code |-> code,
      current_user |-> current_user,   \* request.current_user['id'], <<>> if unset
      package_id |-> package_id,       \* data.package_id of encode and decode
      packages |-> packages,           \* data.packages of the list
      package |-> package,             \* data.package of the detail
      metrics |-> mets,                \* data.metrics of decode and detail
      storeRead |-> read,              \* the request read db.storage or db.metrics
      storeWrite |-> write ]           \* the request wrote db.storage or db.metrics

Rejected(a) == Response(a.status, a.code, <<>>, <<>>, <<>>, <<>>, <<>>, FALSE, FALSE)


\* ----------------------------------------------------------------- actions
NoRequest == Request("", NoneV, NoBody, <<>>)
NoResponse == Response(0, "", <<>>, <<>>, <<>>, <<>>, <<>>, FALSE, FALSE)

Init ==
    /\ storage = <<>>
    /\ metrics = <<>>
    /\ hashOf \in [Hashable -> 1..NumHashVals]
    /\ now = 0
    /\ request = NoRequest
    /\ response = NoResponse
    /\ issued = {}
    /\ decodedOk = {}

\* POST /api/v1/encode
ApiEncode ==
    /\ now < MaxClock
    /\ \E req \in EncodeRequests, legacy \in BOOLEAN :
         LET a == RequireAuth(req)
         IN  /\ request' = req
             /\ IF ~a.ok
                THEN /\ response' = Rejected(a)
                     /\ UNCHANGED <<storage, issued>>
                ELSE LET r == api_encode_message(req, a.user[1], legacy, hashOf, now)
                     IN  IF r.status = 201
                         THEN /\ storage' = save_transmission_history(storage, a.user[1], r.paquete[1])
                              /\ issued' = issued \cup {<<a.user[1], r.paquete[1].id_mensaje>>}
                              /\ response' = Response(201, "", a.user, r.paquete[1].id_mensaje,
                                                      <<>>, <<>>, <<>>, FALSE, TRUE)
                         ELSE /\ response' = Response(r.status, r.code, a.user, <<>>,
                                                      <<>>, <<>>, <<>>, FALSE, FALSE)
                              /\ UNCHANGED <<storage, issued>>
    /\ now' = now + 1
    /\ UNCHANGED <<metrics, hashOf, decodedOk>>

\* POST /api/v1/decode
ApiDecode ==
    /\ now < MaxClock
    /\ \E req \in DecodeRequests, legacy \in BOOLEAN :
         LET a == RequireAuth(req)
         IN  /\ request' = req
             /\ IF ~a.ok
                THEN /\ response' = Rejected(a)
                     /\ UNCHANGED <<metrics, decodedOk>>
                ELSE LET r == api_decode_message(req, a.user[1], legacy, storage)
                         resultado == decode_quantum_transmission
                     IN  IF r.update
                         THEN /\ metrics' = update_metrics(metrics, req.body.package_id, resultado)
                              /\ decodedOk' = decodedOk \cup {req.body.package_id}
                              /\ response' = Response(200, "", a.user, req.body.package_id.v,
                                                      <<>>, <<>>, <<resultado>>, TRUE, TRUE)
                         ELSE /\ response' = Response(r.status, r.code, a.user, <<>>,
                                                      <<>>, <<>>, <<>>, r.read, FALSE)
                              /\ UNCHANGED <<metrics, decodedOk>>
    /\ now' = now + 1
    /\ UNCHANGED <<storage, hashOf, issued>>

\* GET /api/v1/packages
GetUserPackages ==
    /\ now < MaxClock
    /\ \E req \in ListRequests :
         LET a == RequireAuth(req)
         IN  /\ request' = req
             /\ response' = IF ~a.ok THEN Rejected(a)
                            ELSE Response(200, "", a.user, <<>>,
                                          get_user_packages(storage, metrics, a.user[1]),
                                          <<>>, <<>>, TRUE, FALSE)
    /\ now' = now + 1
    /\ UNCHANGED <<storage, metrics, hashOf, issued, decodedOk>>

\* GET /api/v1/packages/<package_id>
GetPackageDetails ==
    /\ now < MaxClock
    /\ \E req \in DetailRequests :
         LET a == RequireAuth(req)
         IN  /\ request' = req
             /\ response' = IF ~a.ok THEN Rejected(a)
                            ELSE LET r == get_package_details(req.path_id, a.user[1], storage, metrics)
                                 IN  Response(r.status, r.code, a.user, <<>>, <<>>,
                                              r.package, r.metrics, TRUE, FALSE)
    /\ now' = now + 1
    /\ UNCHANGED <<storage, metrics, hashOf, issued, decodedOk>>

Next == ApiEncode \/ ApiDecode \/ GetUserPackages \/ GetPackageDetails

Spec == Init /\ [][Next]_vars


\* ============================================================== properties
Protected == {"encode", "decode", "packages", "package"}

\* the caller of the request just answered was authenticated
Authenticated == response.current_user # <<>>
CurrentUser == response.current_user[1]

\* the package id the request just answered refers to
RequestedId ==
    IF request.endpoint = "decode" THEN request.body.package_id
    ELSE Str(request.path_id)

\* a decode request with a non-empty package_id and a non-empty measurements
\* list; a detail request
WellFormedLookup ==
    \/ request.endpoint = "package"
    \/ /\ request.endpoint = "decode"
       /\ request.body.kind = "object"
       /\ Truthy(request.body.package_id)
       /\ request.body.measurements.t = "list"
       /\ Truthy(request.body.measurements)

\* the stored packages whose identifier is pid
StoredUnder(pid) ==
    { storage[i].value : i \in {j \in 1..Len(storage) : Str(storage[j].value.id_mensaje) = pid} }

\* --- C1: every successful encode returns a package_id that no earlier
\* successful encode returned.
C1_FreshPackageId ==
    [][ (request'.endpoint = "encode" /\ response'.status = 201)
          => response'.package_id \notin {x[2] : x \in issued} ]_vars

\* --- C2: on a protected endpoint a request whose credential is missing
\* (no header and no usable auth_token in the body) or is a token the
\* Authenticator does not resolve gets 401, and no Store read or write.
C2_HeaderMissing == ~Truthy(request.header)
C2_BodyToken ==
    IF request.body.kind = "object" THEN request.body.auth_token ELSE NoneV
C2_Presented == IF C2_HeaderMissing THEN C2_BodyToken ELSE request.header
C2_Unusable == C2_Presented.t # "str" \/ C2_Presented.v = <<>>
C2_Unresolved ==
    /\ ~C2_Unusable
    /\ get_user_from_token(IF startswith(C2_Presented.v, "Bearer ")
                           THEN Tail(C2_Presented.v) ELSE C2_Presented.v) = <<>>
C2_BadCredentialGets401 ==
    (request.endpoint \in Protected /\ (C2_Unusable \/ C2_Unresolved))
      => /\ response.status = 401
         /\ ~response.storeRead
         /\ ~response.storeWrite

\* --- C3: a well-formed decode or detail request by an authenticated user
\* who owns no package stored under the requested id, while such a package
\* is stored, gets 403 FORBIDDEN, no result, no package, and writes nothing.
C3_NotOwner ==
    /\ request.endpoint \in {"decode", "package"}
    /\ Authenticated
    /\ WellFormedLookup
    /\ StoredUnder(RequestedId) # {}
    /\ \A pk \in StoredUnder(RequestedId) : pk.user_id # CurrentUser
C3_NonOwnerForbidden ==
    C3_NotOwner
      => /\ response.status = 403
         /\ response.code = "FORBIDDEN"
         /\ response.package = <<>>
         /\ response.metrics = <<>>
         /\ ~response.storeWrite
C3_Witness ==
    /\ C3_NotOwner
    /\ request.endpoint = "decode"
    /\ response.status = 403

\* --- C4: every summary of a list response is the summary of a stored
\* package whose owner id is the caller.
C4_SummaryOf(sm, pk) ==
    /\ sm.package_id = pk.id_mensaje
    /\ sm.timestamp = pk.timestamp
    /\ sm.encoding_type = pk.encoding_type
    /\ sm.qubits_count = pk.qubits_count
C4_ListOnlyOwn ==
    (request.endpoint = "packages" /\ response.status = 200)
      => \A i \in 1..Len(response.packages) :
            \E j \in 1..Len(storage) :
               /\ storage[j].value.user_id = CurrentUser
               /\ C4_SummaryOf(response.packages[i], storage[j].value)
C4_Witness ==
    /\ request.endpoint = "packages"
    /\ response.status = 200
    /\ Len(response.packages) >= 1
    /\ \E j \in 1..Len(storage) : storage[j].value.user_id # CurrentUser

\* --- C5: a persisted package is never changed by a later operation: it
\* stays in the Store with every field as it was.
C5_PackageImmutable ==
    [][ \A i \in 1..Len(storage) :
           i <= Len(storage') /\ storage'[i] = storage[i] ]_vars

\* --- C6: in a list response a package has status "decoded" iff an earlier
\* decode that returned 200 referenced its id, and "encoded" otherwise.
C6_DecodedIffDecoded ==
    (request.endpoint = "packages" /\ response.status = 200)
      => \A i \in 1..Len(response.packages) :
            LET sm == response.packages[i]
            IN  /\ sm.status \in {"decoded", "encoded"}
                /\ sm.status = "decoded" <=> Str(sm.package_id) \in decodedOk
C6_Witness ==
    /\ request.endpoint = "packages"
    /\ response.status = 200
    /\ \E i \in 1..Len(response.packages) : response.packages[i].status = "decoded"
    /\ decodedOk # {}

\* --- C7: an authenticated encode whose message is empty, whitespace-only
\* or longer than 1000 characters gets 400 VALIDATION_ERROR and leaves the
\* stored packages and metrics as they were.
C7_BadMessage(req) ==
    /\ req.endpoint = "encode"
    /\ req.body.kind = "object"
    /\ req.body.message.t = "str"
    /\ \/ strip(req.body.message.v) = <<>>
       \/ len(req.body.message.v) > MaxMessageLen
C7_BadMessageRejected ==
    [][ (C7_BadMessage(request') /\ response'.current_user # <<>>)
          => /\ response'.status = 400
             /\ response'.code = "VALIDATION_ERROR"
             /\ ~response'.storeWrite
             /\ storage' = storage
             /\ metrics' = metrics ]_vars
C7_Witness ==
    /\ C7_BadMessage(request)
    /\ Authenticated
    /\ len(request.body.message.v) > MaxMessageLen
    /\ response.status = 400
    /\ storage # <<>>

\* --- C8: an authenticated encode with an object body whose message is a
\* string that is non-empty after trimming and whose trimmed length is at
\* most 1000 gets 201.
C8_TrimmedWithinLimitCreated ==
    ( /\ request.endpoint = "encode"
      /\ Authenticated
      /\ request.body.kind = "object"
      /\ request.body.message.t = "str"
      /\ strip(request.body.message.v) # <<>>
      /\ len(strip(request.body.message.v)) <= MaxMessageLen )
      => response.status = 201

\* --- C9: an authenticated encode or decode whose body is absent or is JSON
\* that is not an object gets 400 VALIDATION_ERROR, not 500.
C9_NonObjectBodyIsValidationError ==
    ( /\ request.endpoint \in {"encode", "decode"}
      /\ Authenticated
      /\ request.body.kind \in {"nojson", "null", "emptyarray", "array"} )
      => /\ response.status = 400
         /\ response.code = "VALIDATION_ERROR"

\* --- C10: once encode returned 201 with package_id p to user u, every
\* later well-formed decode or detail request by u for p gets 200.
C10_OwnerCanAlwaysRead ==
    ( /\ request.endpoint \in {"decode", "package"}
      /\ Authenticated
      /\ WellFormedLookup
      /\ RequestedId.t = "str"
      /\ <<CurrentUser, RequestedId.v>> \in issued )
      => response.status = 200

====
